---------------------------- MODULE Spec2Model ----------------------------
(***************************************************************************)
(* A model of PNGMe: the PNG chunk codec (chunk_type.rs, chunk.rs), the    *)
(* chunk container, the commands that drive it (commands.rs, png_file.rs) *)
(* and the exit status of the process that runs one (main.rs).             *)
(*                                                                         *)
(* Byte vectors (Vec<u8>, &[u8]) are records [head, zeros, tail] standing  *)
(* for the bytes  head ++ 0^zeros ++ tail : an explicit sequence, or an    *)
(* explicit head and tail around one long run of zero bytes.  The run is   *)
(* what lets the model hold a payload of 2^31 bytes and more, the sizes    *)
(* where the u32 length field of a chunk matters.                          *)
(***************************************************************************)
EXTENDS Integers, Sequences, FiniteSets, TLC

VARIABLES
    type_in,    \* the [u8; 4] handed to ChunkType::try_from
    ct,         \* the result of ChunkType::try_from, or None
    props,      \* the five predicates of the constructed ChunkType, or None
    data_in,    \* the payload handed to Chunk::new
    chunk,      \* the Chunk that Chunk::new built, or None
    wire,       \* the byte slice at hand: the input of Chunk::try_from, or None
    org,        \* where wire comes from
    res,        \* the result of Chunk::try_from(wire), or None
    disk,       \* the file system: the bytes of each file that exists, by path
    prev,       \* the file system as the last command found it
    cmd,        \* the last command and its arguments
    out,        \* the Result the last command returned, or None
    status,     \* the exit status of the process that ran the last command, or None
    ncmd        \* the number of commands run

type_vars == <<type_in, ct, props>>

chunk_vars == <<data_in, chunk, wire, org, res>>

png_vars == <<disk, prev, cmd, out, status, ncmd>>

vars == <<type_vars, chunk_vars, png_vars>>

None == [tag |-> "None"]

(***************************************************************************)
(* Bounds of the model.                                                    *)
(***************************************************************************)
\* the longest explicit payload
MaxData == 2

\* a run of at least BulkMin zero bytes is kept as a run, a shorter one is
\* written out
BulkMin == 64

(***************************************************************************)
(* Numbers.  TLC's integers end at 2^31 - 1, and the program's u32 and     *)
(* usize values do not: a number that can be a length, a position or a CRC *)
(* is a pair <<hi, lo>> of value hi * 2^16 + lo with lo < 2^16.  A u32 has *)
(* hi < 2^16; a usize is taken to be 64 bits wide, and no value of the     *)
(* model comes near its end.                                               *)
(***************************************************************************)
B16 == 2^16

\* the number n, for an integer 0 <= n < 2^31
N(n) == <<n \div B16, n % B16>>

\* the integer a, for a number a < 2^31
NInt(a) == a[1] * B16 + a[2]

NAdd(a, b) == <<a[1] + b[1] + (a[2] + b[2]) \div B16, (a[2] + b[2]) % B16>>

\* a - b, for a >= b
NSub(a, b) ==
    IF a[2] >= b[2] THEN <<a[1] - b[1], a[2] - b[2]>>
    ELSE <<a[1] - b[1] - 1, a[2] + B16 - b[2]>>

NLt(a, b) == a[1] < b[1] \/ (a[1] = b[1] /\ a[2] < b[2])

NLe(a, b) == a[1] < b[1] \/ (a[1] = b[1] /\ a[2] <= b[2])

NMin(a, b) == IF NLe(a, b) THEN a ELSE b

NMax(a, b) == IF NLe(a, b) THEN b ELSE a

\* a >> 1
NHalf(a) == <<a[1] \div 2, (a[1] % 2) * (B16 \div 2) + a[2] \div 2>>

\* a >> 8
NShr8(a) == <<a[1] \div 256, (a[1] % 256) * 256 + a[2] \div 256>>

NOdd(a) == a[2] % 2 = 1

\* a ^ b for bytes, bit by bit.  The xors are functions, not operators: TLC
\* evaluates the argument of a function before it applies it, which keeps the
\* evaluation of a chain of xors shallow.
Xor8[a \in Nat, b \in Nat] ==
    ((a + b) % 2)
    + ((a \div 2 + b \div 2) % 2) * 2
    + ((a \div 4 + b \div 4) % 2) * 4
    + ((a \div 8 + b \div 8) % 2) * 8
    + ((a \div 16 + b \div 16) % 2) * 16
    + ((a \div 32 + b \div 32) % 2) * 32
    + ((a \div 64 + b \div 64) % 2) * 64
    + ((a \div 128 + b \div 128) % 2) * 128

\* a ^ b, for 16-bit integers
Xor[a \in Nat, b \in Nat] ==
    Xor8[a % 256, b % 256] + 256 * Xor8[a \div 256, b \div 256]

\* a ^ b, for 32-bit numbers
NXor[a \in Nat \X Nat, b \in Nat \X Nat] == <<Xor[a[1], b[1]], Xor[a[2], b[2]]>>

\* usize as u32: truncation to 32 bits
AsU32(a) == <<a[1] % B16, a[2]>>

\* u32::to_be_bytes
to_be_bytes(a) == <<a[1] \div 256, a[1] % 256, a[2] \div 256, a[2] % 256>>

\* u32::from_be_bytes
from_be_bytes(b) == <<b[1] * 256 + b[2], b[3] * 256 + b[4]>>

(***************************************************************************)
(* Byte vectors.  Explicit(s) is the vector of the bytes of s; a vector    *)
(* with zeros > 0 is  head ++ 0^zeros ++ tail.  MkVec keeps the form       *)
(* canonical, so that equal byte strings are equal records: a run shorter  *)
(* than BulkMin is written out, and a kept run takes in the zero bytes     *)
(* next to it.                                                             *)
(***************************************************************************)
Explicit(s) == [head |-> s, zeros |-> N(0), tail |-> <<>>]

Zeros(n) == [i \in 1..n |-> 0]

\* the number of zero bytes at the end of s
RECURSIVE TrailingZeros(_)
TrailingZeros(s) ==
    IF s = <<>> \/ s[Len(s)] # 0 THEN 0
    ELSE 1 + TrailingZeros(SubSeq(s, 1, Len(s) - 1))

\* the number of zero bytes at the start of s
RECURSIVE LeadingZeros(_)
LeadingZeros(s) ==
    IF s = <<>> \/ s[1] # 0 THEN 0 ELSE 1 + LeadingZeros(Tail(s))

\* the vector h ++ 0^z ++ t
MkVec(h, z, t) ==
    LET hz == TrailingZeros(h)
        tz == LeadingZeros(t)
        run == NAdd(z, N(hz + tz))
    IN  IF z = N(0) \/ NLt(run, N(BulkMin))
            THEN Explicit(h \o Zeros(NInt(z)) \o t)
            ELSE [head |-> SubSeq(h, 1, Len(h) - hz), zeros |-> run,
                  tail |-> SubSeq(t, tz + 1, Len(t))]

\* the vector of n zero bytes: vec![0u8; n]
ZeroVec(n) == MkVec(<<>>, n, <<>>)

\* slice.len()
VLen(v) == NAdd(NAdd(N(Len(v.head)), v.zeros), N(Len(v.tail)))

\* &v[a..b], for 0 <= a <= b <= v.len()
VSlice(v, a, b) ==
    LET H == N(Len(v.head))
        HZ == NAdd(H, v.zeros)
        from == NMax(a, H)
        to == NMin(b, HZ)
    IN  MkVec(IF NLt(a, H) THEN SubSeq(v.head, NInt(a) + 1, NInt(NMin(b, H))) ELSE <<>>,
              IF NLt(from, to) THEN NSub(to, from) ELSE N(0),
              IF NLt(HZ, b)
                  THEN SubSeq(v.tail, NInt(NSub(NMax(a, HZ), HZ)) + 1, NInt(NSub(b, HZ)))
                  ELSE <<>>)

\* extend_from_slice: v followed by w, where at most one of the two holds a run
VCat(v, w) ==
    IF w.zeros = N(0)
        THEN MkVec(v.head, v.zeros, v.tail \o w.head)
        ELSE MkVec(v.head \o Zeros(NInt(v.zeros)) \o v.tail \o w.head, w.zeros, w.tail)

\* slice.get(a..b): None when the range is not within the slice
VGet(v, a, b) ==
    IF NLt(b, a) \/ NLt(VLen(v), b) THEN None
    ELSE [tag |-> "Some", val |-> VSlice(v, a, b)]

(***************************************************************************)
(* CRC-32/ISO-HDLC, the algorithm chunk.rs names: reflected polynomial     *)
(* 0xEDB88320, initial value and final xor 0xFFFFFFFF, one table lookup a  *)
(* byte.                                                                   *)
(***************************************************************************)
\* 0xEDB88320
CRC_POLY == <<60856, 33568>>

\* 0xFFFFFFFF
CRC_INIT == <<65535, 65535>>

\* 0xFFFFFFFF
CRC_XOROUT == <<65535, 65535>>

\* one step of the table's construction: shift right, and xor the polynomial
\* in when the bit shifted out is set
CrcShift(c) == IF NOdd(c) THEN NXor[NHalf(c), CRC_POLY] ELSE NHalf(c)

CrcTableEntry(i) ==
    CrcShift(CrcShift(CrcShift(CrcShift(CrcShift(CrcShift(CrcShift(CrcShift(N(i)))))))))

\* the entries lo .. hi of the table, as a sequence
RECURSIVE CrcTableRange(_, _)
CrcTableRange(lo, hi) ==
    IF lo = hi THEN <<CrcTableEntry(lo)>>
    ELSE CrcTableRange(lo, (lo + hi) \div 2) \o CrcTableRange((lo + hi) \div 2 + 1, hi)

\* the 256 entries of the table; entry i is CrcTable[i + 1]
CrcTable == CrcTableRange(0, 255)

\* the register after one more byte
CrcByte(r, b) == NXor[CrcTable[Xor[r[2] % 256, b] + 1], NShr8(r)]

\* the register after the bytes of the sequence s
CrcSeq[r \in Nat \X Nat, s \in Seq(Nat)] ==
    IF s = <<>> THEN r ELSE CrcSeq[CrcByte(r, s[1]), Tail(s)]

(***************************************************************************)
(* The register after a run of zero bytes.  A zero byte maps the register  *)
(* r to CrcByte(r, 0), which is linear over GF(2), so 2^k zero bytes are a *)
(* 32 x 32 bit matrix: ZeroPow[k + 1][i] is the register that bit i - 1    *)
(* alone becomes after 2^k zero bytes.                                     *)
(***************************************************************************)
\* the register with bit i alone set, 0 <= i < 32
OneBit(i) == IF i < 16 THEN <<0, 2^i>> ELSE <<2^(i - 16), 0>>

\* bit k of the number n
NBit(n, k) == IF k < 16 THEN (n[2] \div 2^k) % 2 = 1 ELSE (n[1] \div 2^(k - 16)) % 2 = 1

\* the xor of the rows of m picked by the bits lo .. hi of the register r; the
\* range is halved, so that the evaluation nests five deep and not thirty-two
MatSpan[m \in Seq(Nat \X Nat), r \in Nat \X Nat, lo \in Nat, hi \in Nat] ==
    IF lo = hi THEN (IF NBit(r, lo) THEN m[lo + 1] ELSE <<0, 0>>)
    ELSE NXor[MatSpan[m, r, lo, (lo + hi) \div 2], MatSpan[m, r, (lo + hi) \div 2 + 1, hi]]

\* the matrix m applied to the register r
MatApply(m, r) == MatSpan[m, r, 0, 31]

\* the highest power of two of the table: a run is shorter than 2^(MaxPow + 1)
MaxPow == 33

\* the rows lo .. hi of the matrix of one zero byte
RECURSIVE ZeroByteRows(_, _)
ZeroByteRows(lo, hi) ==
    IF lo = hi THEN <<CrcByte(OneBit(lo - 1), 0)>>
    ELSE ZeroByteRows(lo, (lo + hi) \div 2) \o ZeroByteRows((lo + hi) \div 2 + 1, hi)

\* the rows lo .. hi of the matrix m applied twice
RECURSIVE SquareRows(_, _, _)
SquareRows(m, lo, hi) ==
    IF lo = hi THEN <<MatApply(m, m[lo])>>
    ELSE SquareRows(m, lo, (lo + hi) \div 2) \o SquareRows(m, (lo + hi) \div 2 + 1, hi)

\* m, m^2, m^4, ...: n matrices, each the square of the one before
Squarings[m \in Seq(Nat \X Nat), n \in Nat] ==
    IF n = 1 THEN <<m>>
    ELSE LET first == Squarings[m, n \div 2]
         IN  first \o Squarings[SquareRows(first[n \div 2], 1, 32), n - n \div 2]

\* the matrices of 2^0, 2^1, ..., 2^MaxPow zero bytes
ZeroPow == Squarings[ZeroByteRows(1, 32), MaxPow + 1]

\* the register after the zero bytes that the bits lo .. hi of n count
CrcZeroBits[r \in Nat \X Nat, n \in Nat \X Nat, lo \in Nat, hi \in Nat] ==
    IF lo = hi THEN (IF NBit(n, lo) THEN MatApply(ZeroPow[lo + 1], r) ELSE r)
    ELSE CrcZeroBits[CrcZeroBits[r, n, lo, (lo + hi) \div 2], n, (lo + hi) \div 2 + 1, hi]

\* the register after n zero bytes, n < 2^(MaxPow + 1)
CrcZeros(r, n) == CrcZeroBits[r, n, 0, MaxPow]

\* Digest::update over a byte vector
CrcUpdate(r, v) == CrcSeq[CrcZeros(CrcSeq[r, v.head], v.zeros), v.tail]

\* Digest::finalize
CrcFinalize(r) == NXor[r, CRC_XOROUT]

(***************************************************************************)
(* chunk_type.rs                                                           *)
(***************************************************************************)
\* u8::is_ascii_alphabetic
is_ascii_alphabetic(b) == (b >= 65 /\ b <= 90) \/ (b >= 97 /\ b <= 122)

\* the indices (1-based) of the bytes the loop of try_from rejects
BadIndices(bytes) == {i \in 1..4 : ~is_ascii_alphabetic(bytes[i])}

\* the first index the loop of try_from stops at
FirstBad(bytes) == CHOOSE i \in BadIndices(bytes) : \A j \in BadIndices(bytes) : i <= j

\* a mutant of ChunkType_try_from: the loop starts at index 1, so byte 0 is
\* never looked at
ChunkType_try_from_skip0(bytes) ==
    IF BadIndices(bytes) \ {1} # {}
        THEN LET i == CHOOSE i \in BadIndices(bytes) \ {1} :
                          \A j \in BadIndices(bytes) \ {1} : i <= j
             IN  [tag |-> "InvalidByte", byte |-> bytes[i], index |-> i - 1]
        ELSE [tag |-> "Ok", val |-> [bytes |-> bytes]]

\* impl TryFrom<[u8; 4]> for ChunkType; the error's index is 0-based
ChunkType_try_from(bytes) ==
    IF BadIndices(bytes) # {}
        THEN [tag |-> "InvalidByte", byte |-> bytes[FirstBad(bytes)],
              index |-> FirstBad(bytes) - 1]
        ELSE [tag |-> "Ok", val |-> [bytes |-> bytes]]

PROPERTY_BIT_MASK == 32

\* a mutant of is_bit_set: the mask is 0x40
is_bit_set_mask64(t, index) == (t.bytes[index + 1] \div 64) % 2 # 0

\* ChunkType::is_bit_set; index is 0-based
is_bit_set(t, index) == (t.bytes[index + 1] \div PROPERTY_BIT_MASK) % 2 # 0

is_critical(t) == ~is_bit_set(t, 0)

is_public(t) == ~is_bit_set(t, 1)

is_reserved_bit_valid(t) == ~is_bit_set(t, 2)

is_safe_to_copy(t) == is_bit_set(t, 3)

is_valid(t) ==
    (\A i \in 1..4 : is_ascii_alphabetic(t.bytes[i])) /\ is_reserved_bit_valid(t)

(***************************************************************************)
(* chunk.rs                                                                *)
(***************************************************************************)
\* Chunk::MAX_DATA_SIZE = (1 << 31) - 1
MAX_DATA_SIZE == NSub(<<2^15, 0>>, N(1))

LENGTH_SIZE == 4

TYPE_SIZE == 4

CRC_SIZE == 4

\* a mutant of calculate_crc: the digest is fed the data alone
calculate_crc_data_only(chunk_type, data) ==
    CrcFinalize(CrcUpdate(CRC_INIT, data))

\* Chunk::calculate_crc
calculate_crc(chunk_type, data) ==
    CrcFinalize(CrcUpdate(CrcSeq[CRC_INIT, chunk_type.bytes], data))

\* Chunk::new
Chunk_new(chunk_type, data) ==
    [chunk_type |-> chunk_type, data |-> data, crc |-> calculate_crc(chunk_type, data)]

\* Chunk::length: self.data.len() as u32
length(c) == AsU32(VLen(c.data))

\* a mutant of as_bytes: the CRC is written before the data
as_bytes_crc_first(c) ==
    VCat(VCat(VCat(Explicit(to_be_bytes(length(c))), Explicit(c.chunk_type.bytes)),
              Explicit(to_be_bytes(c.crc))),
         c.data)

\* Chunk::as_bytes
as_bytes(c) ==
    VCat(VCat(VCat(Explicit(to_be_bytes(length(c))), Explicit(c.chunk_type.bytes)),
              c.data),
         Explicit(to_be_bytes(c.crc)))

\* ChunkError::NotEnoughBytes { position, required, actual: bytes.len() - position };
\* the subtraction of usize values overflows when position > bytes.len(): the
\* debug build panics there (the release build wraps)
NotEnoughBytes(input, position, required) ==
    IF NLt(VLen(input), position) THEN [tag |-> "Panic"]
    ELSE [tag |-> "NotEnoughBytes", position |-> position, required |-> required,
          actual |-> NSub(VLen(input), position)]

\* the last two steps of try_from: the CRC field against expected_crc, the CRC
\* of what was read
VerifyCrc(chunk_type, data_bytes, crc, expected_crc) ==
    IF crc # expected_crc
        THEN [tag |-> "CrcMismatch", expected |-> expected_crc, actual |-> crc]
        ELSE [tag |-> "Ok",
              val |-> [chunk_type |-> chunk_type, data |-> data_bytes, crc |-> crc]]

\* a mutant of ParseData: the error of the data field is given the position
\* of the CRC field
ParseData_position_of_crc(input, chunk_type, data_length) ==
    LET data_start == N(LENGTH_SIZE + TYPE_SIZE)
        data_bytes == VGet(input, data_start, NAdd(data_start, data_length))
        crc_start == NAdd(data_start, data_length)
        crc_bytes == VGet(input, crc_start, NAdd(crc_start, N(CRC_SIZE)))
    IN  IF data_bytes = None THEN NotEnoughBytes(input, crc_start, data_length)
        ELSE IF crc_bytes = None THEN NotEnoughBytes(input, crc_start, N(CRC_SIZE))
        ELSE VerifyCrc(chunk_type, data_bytes.val, from_be_bytes(crc_bytes.val.head),
                       calculate_crc(chunk_type, data_bytes.val))

\* a mutant of ParseData: the CRC field is taken to be the last four bytes of
\* the input
ParseData_crc_at_end(input, chunk_type, data_length) ==
    LET data_start == N(LENGTH_SIZE + TYPE_SIZE)
        data_bytes == VGet(input, data_start, NAdd(data_start, data_length))
        crc_start == NAdd(data_start, data_length)
        crc_bytes == VGet(input, crc_start, NAdd(crc_start, N(CRC_SIZE)))
        last_bytes == VGet(input, NSub(VLen(input), N(CRC_SIZE)), VLen(input))
    IN  IF data_bytes = None THEN NotEnoughBytes(input, data_start, data_length)
        ELSE IF crc_bytes = None THEN NotEnoughBytes(input, crc_start, N(CRC_SIZE))
        ELSE VerifyCrc(chunk_type, data_bytes.val, from_be_bytes(last_bytes.val.head),
                       calculate_crc(chunk_type, data_bytes.val))

\* try_from, from the data field on
ParseData(input, chunk_type, data_length) ==
    LET data_start == N(LENGTH_SIZE + TYPE_SIZE)
        data_bytes == VGet(input, data_start, NAdd(data_start, data_length))
        crc_start == NAdd(data_start, data_length)
        crc_bytes == VGet(input, crc_start, NAdd(crc_start, N(CRC_SIZE)))
    IN  IF data_bytes = None THEN NotEnoughBytes(input, data_start, data_length)
        ELSE IF crc_bytes = None THEN NotEnoughBytes(input, crc_start, N(CRC_SIZE))
        ELSE VerifyCrc(chunk_type, data_bytes.val, from_be_bytes(crc_bytes.val.head),
                       calculate_crc(chunk_type, data_bytes.val))

\* try_from, from the type field on
ParseType(input, data_length) ==
    LET type_start == N(LENGTH_SIZE)
        type_bytes == VGet(input, type_start, NAdd(type_start, N(TYPE_SIZE)))
    IN  IF type_bytes = None THEN NotEnoughBytes(input, type_start, N(TYPE_SIZE))
        ELSE LET chunk_type == ChunkType_try_from(type_bytes.val.head)
             IN  IF chunk_type.tag # "Ok"
                     THEN [tag |-> "InvalidChunkType", source |-> chunk_type]
                     ELSE ParseData(input, chunk_type.val, data_length)

\* a mutant of Chunk_try_from: the type is parsed before the length is held
\* against MAX_DATA_SIZE
Chunk_try_from_type_first(input) ==
    LET length_bytes == VGet(input, N(0), N(LENGTH_SIZE))
    IN  IF length_bytes = None THEN NotEnoughBytes(input, N(0), N(LENGTH_SIZE))
        ELSE LET data_length == from_be_bytes(length_bytes.val.head)
                 parsed == ParseType(input, NMin(data_length, MAX_DATA_SIZE))
             IN  IF parsed.tag = "InvalidChunkType" \/ ~NLt(MAX_DATA_SIZE, data_length)
                     THEN parsed
                     ELSE [tag |-> "TooLarge", size |-> data_length]

\* impl TryFrom<&[u8]> for Chunk
Chunk_try_from(input) ==
    LET length_bytes == VGet(input, N(0), N(LENGTH_SIZE))
    IN  IF length_bytes = None THEN NotEnoughBytes(input, N(0), N(LENGTH_SIZE))
        ELSE LET data_length == from_be_bytes(length_bytes.val.head)
             IN  IF NLt(MAX_DATA_SIZE, data_length)
                     THEN [tag |-> "TooLarge", size |-> data_length]
                     ELSE ParseType(input, data_length)

\* str::from_utf8 succeeds on the bytes s: the well-formed UTF-8 sequences
RECURSIVE Utf8Valid(_)
Utf8Valid(s) ==
    LET Cont(i) == i <= Len(s) /\ s[i] \in 128 .. 191
        Rest(n) == Utf8Valid(SubSeq(s, n + 1, Len(s)))
    IN  IF s = <<>> THEN TRUE
        ELSE IF s[1] < 128 THEN Rest(1)
        ELSE IF s[1] \in 194 .. 223 THEN Cont(2) /\ Rest(2)
        ELSE IF s[1] = 224 THEN Cont(2) /\ s[2] >= 160 /\ Cont(3) /\ Rest(3)
        ELSE IF s[1] = 237 THEN Cont(2) /\ s[2] <= 159 /\ Cont(3) /\ Rest(3)
        ELSE IF s[1] \in 225 .. 239 THEN Cont(2) /\ Cont(3) /\ Rest(3)
        ELSE IF s[1] = 240 THEN Cont(2) /\ s[2] >= 144 /\ Cont(3) /\ Cont(4) /\ Rest(4)
        ELSE IF s[1] \in 241 .. 243 THEN Cont(2) /\ Cont(3) /\ Cont(4) /\ Rest(4)
        ELSE IF s[1] = 244 THEN Cont(2) /\ s[2] <= 143 /\ Cont(3) /\ Cont(4) /\ Rest(4)
        ELSE FALSE

\* Chunk::data_as_str; a string is the sequence of its bytes
data_as_str(c) ==
    IF Utf8Valid(c.data.head) THEN [tag |-> "Ok", val |-> c.data.head]
    ELSE [tag |-> "InvalidUtf8"]

\* impl FromStr for ChunkType; s is the sequence of the bytes of the string
ChunkType_from_str(s) ==
    IF Len(s) # 4 THEN [tag |-> "InvalidLength", len |-> Len(s)]
    ELSE ChunkType_try_from(s)

(***************************************************************************)
(* The container, Png.  png.rs is not among the sources: these operators   *)
(* follow section 4.3 of the specification, under the names commands.rs    *)
(* and png_file.rs call them by.  A container is a record [chunks], the    *)
(* ordered sequence of its chunks; its signature is fixed.                 *)
(***************************************************************************)
\* 89 50 4E 47 0D 0A 1A 0A
PNG_SIGNATURE == <<137, 80, 78, 71, 13, 10, 26, 10>>

\* the chunks of input from the cursor pos on, after the chunks acc
RECURSIVE ParseChunks(_, _, _)

\* the same, where parsed is what Chunk::try_from made of the bytes at the
\* cursor: a failure is handed on, a chunk moves the cursor by its size
RECURSIVE ParsedChunk(_, _, _, _)
ParsedChunk(input, pos, acc, parsed) ==
    IF parsed.tag # "Ok" THEN [tag |-> "Chunk", source |-> parsed]
    ELSE ParseChunks(input,
                     NAdd(pos, NAdd(N(LENGTH_SIZE + TYPE_SIZE + CRC_SIZE),
                                    VLen(parsed.val.data))),
                     Append(acc, parsed.val))

ParseChunks(input, pos, acc) ==
    IF pos = VLen(input) THEN [tag |-> "Ok", val |-> [chunks |-> acc]]
    ELSE ParsedChunk(input, pos, acc, Chunk_try_from(VSlice(input, pos, VLen(input))))

\* Png::try_from(&[u8])
Png_try_from(input) ==
    LET signature == VGet(input, N(0), N(Len(PNG_SIGNATURE)))
    IN  IF signature = None \/ signature.val # Explicit(PNG_SIGNATURE)
            THEN [tag |-> "InvalidSignature"]
            ELSE ParseChunks(input, N(Len(PNG_SIGNATURE)), <<>>)

\* the serialised chunks i, i + 1, ... of the sequence chunks, after the bytes acc
RECURSIVE SerializeChunks(_, _, _)
SerializeChunks(chunks, i, acc) ==
    IF i > Len(chunks) THEN acc
    ELSE SerializeChunks(chunks, i + 1, VCat(acc, as_bytes(chunks[i])))

\* Png::as_bytes
Png_as_bytes(png) == SerializeChunks(png.chunks, 1, Explicit(PNG_SIGNATURE))

\* Png::append_chunk
append_chunk(png, new_chunk) == [chunks |-> Append(png.chunks, new_chunk)]

\* the indices of the chunks whose type, displayed, is the string chunk_type
MatchingIndices(png, chunk_type) ==
    {i \in 1 .. Len(png.chunks) : png.chunks[i].chunk_type.bytes = chunk_type}

\* the least of a non-empty set of indices
FirstIndex(indices) == CHOOSE i \in indices : \A j \in indices : i <= j

\* Png::chunk_by_type
chunk_by_type(png, chunk_type) ==
    IF MatchingIndices(png, chunk_type) = {} THEN None
    ELSE [tag |-> "Some", val |-> png.chunks[FirstIndex(MatchingIndices(png, chunk_type))]]

\* Png::remove_first_chunk
remove_first_chunk(png, chunk_type) ==
    IF MatchingIndices(png, chunk_type) = {}
        THEN [tag |-> "ChunkNotFound", chunk_type |-> chunk_type]
        ELSE LET i == FirstIndex(MatchingIndices(png, chunk_type))
             IN  [tag |-> "Ok",
                  val |-> [chunks |-> SubSeq(png.chunks, 1, i - 1)
                                        \o SubSeq(png.chunks, i + 1, Len(png.chunks))]]

(***************************************************************************)
(* png_file.rs.  The file system fs is a function from the paths of the    *)
(* files that exist to their bytes.                                        *)
(***************************************************************************)
\* fs::read
fs_read(fs, path) ==
    IF path \in DOMAIN fs THEN [tag |-> "Ok", val |-> fs[path]]
    ELSE [tag |-> "Io", kind |-> "NotFound"]

\* fs::write, on a file system that takes every write
fs_write(fs, path, contents) ==
    [p \in DOMAIN fs \cup {path} |-> IF p = path THEN contents ELSE fs[p]]

\* PngFile::load, once the file is read: png is what Png::try_from made of it
PngFile_parsed(path, png) ==
    IF png.tag # "Ok" THEN [tag |-> "Png", source |-> png]
    ELSE [tag |-> "Ok", val |-> [path |-> path, png |-> png.val]]

\* PngFile::load
PngFile_load(fs, path) ==
    LET read == fs_read(fs, path)
    IN  IF read.tag # "Ok" THEN read
        ELSE PngFile_parsed(path, Png_try_from(read.val))

\* PngFile::save: the file system after it
PngFile_save(png_file, path, fs) == fs_write(fs, path, Png_as_bytes(png_file.png))

(***************************************************************************)
(* commands.rs.  A path is a record [parent, stem, ext]; its stem is the   *)
(* sequence of the parts that "_" joins.  A command gives a record [out,   *)
(* fs]: the Result it returns and the file system it leaves.               *)
(***************************************************************************)
\* default_output_path: parent.join("{stem}_{suffix}.{ext}")
default_output_path(input_path, suffix) ==
    [parent |-> input_path.parent, stem |-> Append(input_path.stem, suffix),
     ext |-> input_path.ext]

\* a mutant of encode_loaded: the container is written to the output file
\* before the chunk type is parsed
encode_loaded_save_first(fs, file_path, chunk_type, message, output_file, png_file) ==
    IF png_file.tag # "Ok"
        THEN [out |-> [tag |-> "PngFile", source |-> png_file], fs |-> fs]
    ELSE IF ChunkType_from_str(chunk_type).tag # "Ok"
        THEN [out |-> [tag |-> "ChunkType", source |-> ChunkType_from_str(chunk_type)],
              fs |-> PngFile_save(png_file.val,
                        IF output_file = None THEN default_output_path(file_path, "encoded")
                        ELSE output_file.val, fs)]
    ELSE [out |-> [tag |-> "Ok"],
          fs |-> PngFile_save(
                     [png_file.val EXCEPT
                         !.png = append_chunk(@, Chunk_new(ChunkType_from_str(chunk_type).val,
                                                           Explicit(message)))],
                     IF output_file = None THEN default_output_path(file_path, "encoded")
                     ELSE output_file.val, fs)]

\* encode, from its second statement on: png_file is what PngFile::load
\* returned
encode_loaded(fs, file_path, chunk_type, message, output_file, png_file) ==
    LET parsed_type == ChunkType_from_str(chunk_type)
        output == IF output_file = None THEN default_output_path(file_path, "encoded")
                  ELSE output_file.val
    IN  IF png_file.tag # "Ok"
            THEN [out |-> [tag |-> "PngFile", source |-> png_file], fs |-> fs]
        ELSE IF parsed_type.tag # "Ok"
            THEN [out |-> [tag |-> "ChunkType", source |-> parsed_type], fs |-> fs]
        ELSE [out |-> [tag |-> "Ok"],
              fs |-> PngFile_save(
                         [png_file.val EXCEPT
                             !.png = append_chunk(@, Chunk_new(parsed_type.val,
                                                               Explicit(message)))],
                         output, fs)]

\* commands::encode
encode(fs, file_path, chunk_type, message, output_file) ==
    encode_loaded(fs, file_path, chunk_type, message, output_file,
                  PngFile_load(fs, file_path))

\* decode, once the chunk is looked up: found is what chunk_by_type returned
decode_found(fs, chunk_type, found) ==
    IF found = None
        THEN [out |-> [tag |-> "ChunkNotFound", chunk_type |-> chunk_type], fs |-> fs]
    ELSE IF data_as_str(found.val).tag # "Ok"
        THEN [out |-> [tag |-> "Chunk", source |-> data_as_str(found.val)], fs |-> fs]
    ELSE [out |-> data_as_str(found.val), fs |-> fs]

\* a mutant of decode_loaded: the last chunk of the type is taken, not the first
decode_loaded_last_match(fs, file_path, chunk_type, png_file) ==
    IF png_file.tag # "Ok"
        THEN [out |-> [tag |-> "PngFile", source |-> png_file], fs |-> fs]
    ELSE decode_found(fs, chunk_type,
             LET matching == {i \in 1 .. Len(png_file.val.png.chunks) :
                                png_file.val.png.chunks[i].chunk_type.bytes = chunk_type}
             IN  IF matching = {} THEN None
                 ELSE [tag |-> "Some",
                       val |-> png_file.val.png.chunks[
                                   CHOOSE i \in matching : \A j \in matching : j <= i]])

\* decode, from its second statement on
decode_loaded(fs, file_path, chunk_type, png_file) ==
    IF png_file.tag # "Ok"
        THEN [out |-> [tag |-> "PngFile", source |-> png_file], fs |-> fs]
    ELSE decode_found(fs, chunk_type, chunk_by_type(png_file.val.png, chunk_type))

\* commands::decode
decode(fs, file_path, chunk_type) ==
    decode_loaded(fs, file_path, chunk_type, PngFile_load(fs, file_path))

\* a mutant of remove_loaded: the container is not saved after the chunk is
\* removed
remove_loaded_without_save(fs, file_path, chunk_type, png_file) ==
    IF png_file.tag # "Ok"
        THEN [out |-> [tag |-> "PngFile", source |-> png_file], fs |-> fs]
    ELSE IF remove_first_chunk(png_file.val.png, chunk_type).tag # "Ok"
        THEN [out |-> [tag |-> "Png",
                       source |-> remove_first_chunk(png_file.val.png, chunk_type)],
              fs |-> fs]
    ELSE [out |-> [tag |-> "Ok"], fs |-> fs]

\* a mutant of remove_loaded: the error of remove_first_chunk is dropped, the
\* container is saved and Ok returned whether a chunk was removed or not
remove_loaded_ignoring_not_found(fs, file_path, chunk_type, png_file) ==
    IF png_file.tag # "Ok"
        THEN [out |-> [tag |-> "PngFile", source |-> png_file], fs |-> fs]
    ELSE IF remove_first_chunk(png_file.val.png, chunk_type).tag # "Ok"
        THEN [out |-> [tag |-> "Ok"], fs |-> PngFile_save(png_file.val, file_path, fs)]
    ELSE [out |-> [tag |-> "Ok"],
          fs |-> PngFile_save(
                     [png_file.val EXCEPT
                         !.png = remove_first_chunk(png_file.val.png, chunk_type).val],
                     file_path, fs)]

\* remove, from its second statement on
remove_loaded(fs, file_path, chunk_type, png_file) ==
    LET removed == remove_first_chunk(png_file.val.png, chunk_type)
    IN  IF png_file.tag # "Ok"
            THEN [out |-> [tag |-> "PngFile", source |-> png_file], fs |-> fs]
        ELSE IF removed.tag # "Ok"
            THEN [out |-> [tag |-> "Png", source |-> removed], fs |-> fs]
        ELSE [out |-> [tag |-> "Ok"],
              fs |-> PngFile_save([png_file.val EXCEPT !.png = removed.val], file_path, fs)]

\* commands::remove
remove(fs, file_path, chunk_type) ==
    remove_loaded(fs, file_path, chunk_type, PngFile_load(fs, file_path))

\* commands::print: the container is loaded and its Display written to the
\* standard output
print(fs, file_path) ==
    IF PngFile_load(fs, file_path).tag # "Ok"
        THEN [out |-> [tag |-> "PngFile", source |-> PngFile_load(fs, file_path)], fs |-> fs]
    ELSE [out |-> [tag |-> "Ok"], fs |-> fs]

(***************************************************************************)
(* main.rs.  run gives Ok or the error it propagates; main turns that into *)
(* the exit status of the process.                                         *)
(***************************************************************************)
\* a mutant of run: decode has no arm of its own for ChunkNotFound, the error
\* is propagated as every other error is
run_without_not_found_arm(command, result) ==
    IF result.tag = "Ok" THEN [tag |-> "Ok"]
    ELSE [tag |-> "Err", source |-> result]

\* run, once the command returned result: encode, remove and print propagate
\* every error with `?`; decode prints the text, or prints that no chunk has
\* the type and goes on, and propagates every other error
run(command, result) ==
    IF result.tag = "Ok" THEN [tag |-> "Ok"]
    ELSE IF command.kind = "decode" /\ result.tag = "ChunkNotFound" THEN [tag |-> "Ok"]
    ELSE [tag |-> "Err", source |-> result]

\* main: process::exit(1) if run returned an error, process::exit(0) if not
main(command, result) ==
    IF run(command, result).tag = "Err" THEN 1 ELSE 0

(***************************************************************************)
(* The ChunkType specification: construct a type from four bytes, then     *)
(* read its predicates.                                                    *)
(***************************************************************************)
\* the byte values type arrays are drawn from: the edges of A-Z and a-z,
\* letters of both cases, a digit, and the ends of u8
TypeBytes == {0, 49, 64, 65, 90, 91, 96, 97, 122, 123, 255}

TypeArrays == [1..4 -> TypeBytes]

\* no file and no command: the commands at rest
PngIdle ==
    /\ disk = <<>>
    /\ prev = <<>>
    /\ cmd = [kind |-> "none"]
    /\ out = None
    /\ status = None
    /\ ncmd = 0

\* the chunk codec at rest
ChunkIdle ==
    /\ data_in = None
    /\ chunk = None
    /\ wire = None
    /\ org = [kind |-> "none"]
    /\ res = None

TypeInit ==
    /\ type_in \in TypeArrays
    /\ ct = None
    /\ props = None
    /\ ChunkIdle
    /\ PngIdle

\* ChunkType::try_from(type_in)
TypeTryFrom ==
    /\ ct = None
    /\ ct' = ChunkType_try_from(type_in)
    /\ UNCHANGED <<type_in, props, chunk_vars, png_vars>>

\* the five predicates of the ChunkType just built
TypePredicates ==
    /\ ct.tag = "Ok"
    /\ props = None
    /\ props' = [tag |-> "Props",
                 is_critical |-> is_critical(ct.val),
                 is_public |-> is_public(ct.val),
                 is_reserved_bit_valid |-> is_reserved_bit_valid(ct.val),
                 is_safe_to_copy |-> is_safe_to_copy(ct.val),
                 is_valid |-> is_valid(ct.val)]
    /\ UNCHANGED <<type_in, ct, chunk_vars, png_vars>>

TypeNext == TypeTryFrom \/ TypePredicates

SpecType == TypeInit /\ [][TypeNext]_vars

(***************************************************************************)
(* The claims about ChunkType, settled under SpecType.                     *)
(***************************************************************************)
\* the ASCII letters, A-Z and a-z
AsciiLetters == (65 .. 90) \cup (97 .. 122)

\* C5: ChunkType::try_from([u8; 4]) succeeds exactly when all four bytes are
\* ASCII letters, and the type it builds holds those bytes; otherwise it fails
\* with InvalidByte, whose index is the smallest index of a byte that is no
\* letter and whose byte is the byte at that index.
C5_TryFromIffAllLetters ==
    ct # None =>
        /\ (ct.tag = "Ok") <=> (\A i \in 1..4 : type_in[i] \in AsciiLetters)
        /\ (ct.tag = "Ok") => (ct.val.bytes = type_in)
        /\ (ct.tag # "Ok") =>
            /\ ct.tag = "InvalidByte"
            /\ ct.index \in 0..3
            /\ type_in[ct.index + 1] \notin AsciiLetters
            /\ \A j \in 1 .. ct.index : type_in[j] \in AsciiLetters
            /\ ct.byte = type_in[ct.index + 1]

\* C5's case: two bytes are no letters, and the error names the first of them
C5_FirstOfTwoBadBytes ==
    /\ ct.tag = "InvalidByte"
    /\ ct.index = 1
    /\ ct.byte = type_in[2]
    /\ type_in[4] \notin AsciiLetters
    /\ type_in[4] # type_in[2]

\* bit 0x20 of the byte b
Bit5(b) == (b \div 32) % 2 = 1

\* C6: of a constructed ChunkType, is_critical, is_public and
\* is_reserved_bit_valid are true exactly when bit 0x20 of byte 0, 1, 2 is
\* clear, is_safe_to_copy exactly when bit 0x20 of byte 3 is set, is_valid
\* equals is_reserved_bit_valid, and a type with a lowercase byte 2 is
\* constructed and reports is_valid = false.
C6_PropertyBits ==
    /\ props # None =>
        /\ ct.tag = "Ok"
        /\ props.is_critical <=> ~Bit5(type_in[1])
        /\ props.is_public <=> ~Bit5(type_in[2])
        /\ props.is_reserved_bit_valid <=> ~Bit5(type_in[3])
        /\ props.is_safe_to_copy <=> Bit5(type_in[4])
        /\ props.is_valid <=> props.is_reserved_bit_valid
    /\ (ct # None /\ (\A i \in 1..4 : type_in[i] \in AsciiLetters) /\ type_in[3] \in 97 .. 122) =>
        /\ ct.tag = "Ok"
        /\ props # None => ~props.is_valid

\* C6's case: a type with a lowercase byte 2 and an uppercase byte 0 is
\* constructed, critical, and not valid
C6_LowercaseReservedByte ==
    /\ props # None
    /\ type_in[3] \in 97 .. 122
    /\ type_in[1] \in 65 .. 90
    /\ props.is_critical
    /\ ~props.is_reserved_bit_valid
    /\ ~props.is_valid

(***************************************************************************)
(* The chunk specification: a type and a payload make a chunk, the chunk   *)
(* is serialised, the bytes are left alone, damaged or cut short, and      *)
(* parsed; or bytes that no chunk was serialised to are parsed.            *)
(***************************************************************************)
\* the type arrays of the chunk specification: "RuSt" with either case in
\* bytes 0 and 2, and a byte that is no letter in byte 0, 1 or 3
ChunkTypeArrays ==
    {<<a, b, c, d>> : a \in {82, 114, 49}, b \in {117, 64}, c \in {83, 115}, d \in {116, 123}}

\* the bytes explicit payloads are made of
DataBytes == {0, 97, 255}

\* the explicit payloads: every sequence of at most MaxData bytes
RECURSIVE SeqsUpTo(_, _)
SeqsUpTo(S, n) ==
    IF n = 0 THEN {<<>>}
    ELSE LET shorter == SeqsUpTo(S, n - 1)
         IN  shorter \cup {Append(q, b) : q \in {r \in shorter : Len(r) = n - 1}, b \in S}

\* the sizes of the payloads of zero bytes: 2^31 - 1, 2^31, 2^32 + 1
BulkSizes == {MAX_DATA_SIZE, NAdd(MAX_DATA_SIZE, N(1)), <<2^16, 1>>}

Payloads ==
    {Explicit(q) : q \in SeqsUpTo(DataBytes, MaxData)} \cup {ZeroVec(n) : n \in BulkSizes}

\* the length fields of the inputs that no chunk was serialised to:
\* 0, 1, 2, 2^31 - 1, 2^31, 2^32 - 1
LengthFields ==
    {<<0, 0, 0, 0>>, <<0, 0, 0, 1>>, <<0, 0, 0, 2>>, <<127, 255, 255, 255>>,
     <<128, 0, 0, 0>>, <<255, 255, 255, 255>>}

\* what follows the data in such an input
Trailers == {<<>>, <<0, 0, 0, 0>>, <<1, 2, 3, 4, 5>>}

ChunkInit ==
    /\ type_in \in ChunkTypeArrays
    /\ data_in \in Payloads
    /\ ct = None
    /\ props = None
    /\ chunk = None
    /\ wire = None
    /\ org = [kind |-> "none"]
    /\ res = None
    /\ PngIdle

\* ChunkType::try_from(type_in), for the type of a chunk
ChunkTypeTryFrom ==
    /\ ct = None
    /\ wire = None
    /\ ct' = ChunkType_try_from(type_in)
    /\ UNCHANGED <<type_in, props, chunk_vars, png_vars>>

\* Chunk::new(type, data_in)
ChunkNew ==
    /\ ct.tag = "Ok"
    /\ chunk = None
    /\ chunk' = Chunk_new(ct.val, data_in)
    /\ UNCHANGED <<type_vars, data_in, wire, org, res, png_vars>>

\* chunk.as_bytes()
AsBytes ==
    /\ chunk # None
    /\ wire = None
    /\ wire' = as_bytes(chunk)
    /\ org' = [kind |-> "as_bytes"]
    /\ UNCHANGED <<type_vars, data_in, chunk, res, png_vars>>

\* v with the byte at index i replaced by b
VSet(v, i, b) ==
    VCat(VCat(VSlice(v, N(0), i), Explicit(<<b>>)), VSlice(v, NAdd(i, N(1)), VLen(v)))

\* the indices of the type field and of the data field of the serialised chunk
\* c; of a payload of zero bytes, the first MaxData + 1 indices
FlipIndices(c) ==
    {N(i) : i \in LENGTH_SIZE .. (LENGTH_SIZE + TYPE_SIZE + MaxData)}
        \cap {i \in {N(j) : j \in 0 .. (LENGTH_SIZE + TYPE_SIZE + MaxData)} :
                NLt(i, NAdd(N(LENGTH_SIZE + TYPE_SIZE), VLen(c.data)))}

\* one bit of the serialised chunk is flipped, in the type or in the data
FlipBit ==
    /\ org.kind = "as_bytes"
    /\ res = None
    /\ \E i \in FlipIndices(chunk), k \in 0..7 :
        LET whole == VSlice(wire, N(0), NAdd(i, N(1)))
            old == whole.head[Len(whole.head)]
        IN  /\ wire' = VSet(wire, i, Xor8[old, 2^k])
            /\ org' = [kind |-> "flip", index |-> i, bit |-> k]
    /\ UNCHANGED <<type_vars, data_in, chunk, res, png_vars>>

\* the lengths the serialised chunk is cut to: up to the end of an explicit
\* payload's chunk, and the last CRC_SIZE + 1 lengths of any chunk
CutLengths(v) ==
    {n \in {N(i) : i \in 0 .. (LENGTH_SIZE + TYPE_SIZE + MaxData + CRC_SIZE)}
            \cup {NSub(VLen(v), N(j)) : j \in 1 .. (CRC_SIZE + 1)} :
        NLt(n, VLen(v))}

\* the serialised chunk is cut short: a proper prefix of it is kept
Truncate ==
    /\ org.kind = "as_bytes"
    /\ res = None
    /\ \E n \in CutLengths(wire) :
        /\ wire' = VSlice(wire, N(0), n)
        /\ org' = [kind |-> "prefix", cut |-> n]
    /\ UNCHANGED <<type_vars, data_in, chunk, res, png_vars>>

\* bytes that no chunk was serialised to: a length field, type_in, an explicit
\* payload and a trailer
RawInput ==
    /\ ct = None
    /\ wire = None
    /\ data_in.zeros = N(0)
    /\ \E f \in LengthFields, t \in Trailers :
        wire' = Explicit(f \o type_in \o data_in.head \o t)
    /\ org' = [kind |-> "raw"]
    /\ UNCHANGED <<type_vars, data_in, chunk, res, png_vars>>

\* the lengths of the inputs too short for a chunk: 0 to 11
ShortLengths == 0 .. (LENGTH_SIZE + TYPE_SIZE + CRC_SIZE - 1)

\* bytes that no chunk was serialised to, cut short: the first bytes, fewer
\* than 12, of a length field, type_in, an explicit payload and a trailer
RawPrefix ==
    /\ ct = None
    /\ wire = None
    /\ data_in.zeros = N(0)
    /\ \E f \in LengthFields, t \in Trailers, n \in ShortLengths :
        /\ n <= Len(f \o type_in \o data_in.head \o t)
        /\ wire' = Explicit(SubSeq(f \o type_in \o data_in.head \o t, 1, n))
    /\ org' = [kind |-> "raw_prefix"]
    /\ UNCHANGED <<type_vars, data_in, chunk, res, png_vars>>

\* what is put after a serialised chunk
Extensions == {<<0>>, <<0, 0, 0, 0>>, <<1, 2, 3, 4, 5>>}

\* the serialised chunk is followed by more bytes
Extend ==
    /\ org.kind = "as_bytes"
    /\ res = None
    /\ \E e \in Extensions :
        /\ wire' = VCat(wire, Explicit(e))
        /\ org' = [kind |-> "extended", by |-> e]
    /\ UNCHANGED <<type_vars, data_in, chunk, res, png_vars>>

\* Chunk::try_from(wire)
TryFrom ==
    /\ wire # None
    /\ res = None
    /\ res' = Chunk_try_from(wire)
    /\ UNCHANGED <<type_vars, data_in, chunk, wire, org, png_vars>>

ChunkNext ==
    \/ ChunkTypeTryFrom
    \/ ChunkNew
    \/ AsBytes
    \/ FlipBit
    \/ Truncate
    \/ RawInput
    \/ RawPrefix
    \/ Extend
    \/ TryFrom

SpecChunk == ChunkInit /\ [][ChunkNext]_vars


(***************************************************************************)
(* The claims about Chunk, settled under SpecChunk.                        *)
(***************************************************************************)
\* C1: for a constructed type and a payload of at most 2^31 - 1 bytes, the
\* bytes of Chunk::new(t, d).as_bytes() parse, and the parsed chunk has the
\* type, the data and the CRC of the chunk that was serialised.
C1_RoundTrip ==
    (org.kind = "as_bytes" /\ res # None /\ NLe(VLen(data_in), MAX_DATA_SIZE)) =>
        /\ res.tag = "Ok"
        /\ res.val.chunk_type = ct.val
        /\ res.val.chunk_type = chunk.chunk_type
        /\ res.val.data = data_in
        /\ res.val.data = chunk.data
        /\ res.val.crc = chunk.crc

\* C1's case: the chunk of a payload of exactly 2^31 - 1 bytes was serialised
\* and parsed back
C1_LargestPayloadParsed ==
    /\ org.kind = "as_bytes"
    /\ VLen(data_in) = MAX_DATA_SIZE
    /\ res.tag = "Ok"
    /\ res.val.data = data_in

\* the CRC-32 of the one message  type bytes ++ data
Crc32OfTypeThenData(c) ==
    CrcFinalize(CrcUpdate(CRC_INIT, VCat(Explicit(c.chunk_type.bytes), c.data)))

\* C2: every Chunk, built by Chunk::new or returned by Chunk::try_from, has a
\* crc equal to the CRC-32 of its type bytes followed by its data, and a
\* length() equal to the number of its data bytes.
C2_CrcAndLengthOfEveryChunk ==
    /\ chunk # None =>
        /\ chunk.crc = Crc32OfTypeThenData(chunk)
        /\ length(chunk) = VLen(chunk.data)
    /\ res.tag = "Ok" =>
        /\ res.val.crc = Crc32OfTypeThenData(res.val)
        /\ length(res.val) = VLen(res.val.data)

\* C2's failing case: Chunk::new built a chunk of 2^32 + 1 data bytes, whose
\* length() is 1
C2_LengthWraps ==
    /\ chunk # None
    /\ VLen(chunk.data) = <<B16, 1>>
    /\ length(chunk) = N(1)
    /\ chunk.crc = Crc32OfTypeThenData(chunk)

\* the type field of the bytes at hand holds letters only
WireTypeAllLetters ==
    \A i \in (LENGTH_SIZE + 1) .. (LENGTH_SIZE + TYPE_SIZE) : wire.head[i] \in AsciiLetters

\* C3, as the specification states it: a single bit flipped in the type or
\* the data of a serialised chunk makes Chunk::try_from fail with CrcMismatch.
C3_FlipGivesCrcMismatch ==
    (org.kind = "flip" /\ res # None) => res.tag = "CrcMismatch"

\* C3, amended: of a serialised chunk of at most 2^31 - 1 data bytes, a single
\* bit flipped in the type or the data makes Chunk::try_from fail: with
\* InvalidChunkType when the flipped type byte is no letter any more, and
\* otherwise with CrcMismatch, whose actual is the CRC field left as it was.
C3_FlipGivesCrcMismatchOrInvalidType ==
    (org.kind = "flip" /\ res # None /\ NLe(VLen(chunk.data), MAX_DATA_SIZE)) =>
        IF WireTypeAllLetters
            THEN /\ res.tag = "CrcMismatch"
                 /\ res.actual = chunk.crc
                 /\ res.expected # chunk.crc
            ELSE /\ res.tag = "InvalidChunkType"
                 /\ NLt(org.index, N(LENGTH_SIZE + TYPE_SIZE))
                 /\ res.source.tag = "InvalidByte"
                 /\ res.source.index = NInt(org.index) - LENGTH_SIZE

\* C3's case: the flipped bit turned a letter of the type into a byte that is
\* no letter, and the parse failed on the type
C3_FlipMadeTypeInvalid ==
    /\ org.kind = "flip"
    /\ NLe(VLen(chunk.data), MAX_DATA_SIZE)
    /\ ~WireTypeAllLetters
    /\ res.tag = "InvalidChunkType"

\* the length field of the bytes at hand
WireLengthField == from_be_bytes(SubSeq(wire.head, 1, LENGTH_SIZE))

\* C4: Chunk::try_from on a proper prefix of a serialised chunk fails with
\* NotEnoughBytes; cut inside the data field, the error's required is the
\* declared length and its actual the number of bytes after the 8-byte header.
C4_PrefixGivesNotEnoughBytes ==
    (org.kind = "prefix" /\ res # None) =>
        /\ res.tag = "NotEnoughBytes"
        /\ (/\ NLe(N(LENGTH_SIZE + TYPE_SIZE), org.cut)
            /\ NLt(org.cut, NAdd(N(LENGTH_SIZE + TYPE_SIZE), VLen(chunk.data)))) =>
                /\ res.required = WireLengthField
                /\ res.actual = NSub(org.cut, N(LENGTH_SIZE + TYPE_SIZE))

\* C4's failing case: a prefix of the serialised chunk of 2^31 data bytes,
\* which is refused as TooLarge
C4_PrefixOfOversizeChunk ==
    /\ org.kind = "prefix"
    /\ VLen(chunk.data) = NAdd(MAX_DATA_SIZE, N(1))
    /\ res.tag = "TooLarge"

\* C7, as the specification states it: an input of at least 8 bytes with a
\* byte that is no letter in bytes 4..8 fails with InvalidChunkType, whatever
\* its length field and whatever follows the type.
C7_BadTypeGivesInvalidChunkType ==
    (/\ org.kind = "raw"
     /\ res # None
     /\ NLe(N(LENGTH_SIZE + TYPE_SIZE), VLen(wire))
     /\ ~WireTypeAllLetters) => res.tag = "InvalidChunkType"

\* C7, amended: such an input fails with InvalidChunkType, whatever follows
\* the type, when its length field is at most 2^31 - 1; with a greater
\* length field it fails with TooLarge, which carries the length field.
C7_BadTypeGivesInvalidChunkTypeOrTooLarge ==
    (/\ org.kind = "raw"
     /\ res # None
     /\ NLe(N(LENGTH_SIZE + TYPE_SIZE), VLen(wire))
     /\ ~WireTypeAllLetters) =>
        IF NLe(WireLengthField, MAX_DATA_SIZE)
            THEN /\ res.tag = "InvalidChunkType"
                 /\ res.source.tag = "InvalidByte"
                 /\ wire.head[LENGTH_SIZE + res.source.index + 1] = res.source.byte
                 /\ res.source.byte \notin AsciiLetters
            ELSE /\ res.tag = "TooLarge"
                 /\ res.size = WireLengthField

\* C7's case: the length field is 2^31 - 1, far more than the bytes that
\* follow, and the parse fails on the type
C7_BadTypeUnderLargestLength ==
    /\ org.kind = "raw"
    /\ WireLengthField = MAX_DATA_SIZE
    /\ ~WireTypeAllLetters
    /\ res.tag = "InvalidChunkType"

\* C8: every Chunk, built by Chunk::new or returned by Chunk::try_from, has at
\* most 2^31 - 1 data bytes, and the length field as_bytes writes is the
\* number of its data bytes.
C8_DataWithinLimit ==
    /\ chunk # None => NLe(VLen(chunk.data), MAX_DATA_SIZE)
    /\ res.tag = "Ok" => NLe(VLen(res.val.data), MAX_DATA_SIZE)
    /\ org.kind = "as_bytes" => WireLengthField = VLen(chunk.data)

\* C8's failing case: Chunk::new built a chunk of 2^31 data bytes
C8_OversizeChunkBuilt ==
    /\ chunk # None
    /\ VLen(chunk.data) = NAdd(MAX_DATA_SIZE, N(1))
    /\ chunk.data = data_in


(***************************************************************************)
(* The command specification: a file system with one PNG file, or one file *)
(* that is no PNG, and the commands encode, decode and remove run on it    *)
(* one after another.                                                      *)
(***************************************************************************)
\* the number of commands of a run
MaxCmds == 2

\* the file the commands are first run on
InPath == [parent |-> "", stem |-> <<"in">>, ext |-> "png"]

\* the file_path arguments of decode and remove: the file, and the file encode
\* writes by default
FilePaths == {InPath, default_output_path(InPath, "encoded")}

\* the output_file arguments of encode: none, or the input file itself
OutputFiles == {None, [tag |-> "Some", val |-> InPath]}

\* the chunk_type arguments of decode and remove: "RuSt", "ruSt", "Rus"
TypeStrings == {<<82, 117, 83, 116>>, <<114, 117, 83, 116>>, <<82, 117, 115>>}

\* the chunk_type arguments of encode: those, and "Ru1t"
EncodeTypeStrings == TypeStrings \cup {<<82, 117, 49, 116>>}

\* the message arguments: "hi"
Messages == {<<104, 105>>}

\* the chunks of the files on disk at the start: "RuSt" with the text "a",
\* "ruSt" with the text "b", "RuSt" with a byte that is no UTF-8, "RuSt" with
\* the text "c"
FileChunk(i) ==
    CASE i = 1 -> Chunk_new([bytes |-> <<82, 117, 83, 116>>], Explicit(<<97>>))
      [] i = 2 -> Chunk_new([bytes |-> <<114, 117, 83, 116>>], Explicit(<<98>>))
      [] i = 3 -> Chunk_new([bytes |-> <<82, 117, 83, 116>>], Explicit(<<255>>))
      [] i = 4 -> Chunk_new([bytes |-> <<82, 117, 83, 116>>], Explicit(<<99>>))

\* the bytes of the file at the start: PNG files of no, one, two and three chunks, a
\* PNG file cut off inside its last chunk, and a file with another signature
InitialFiles ==
    {Png_as_bytes([chunks |-> [i \in 1 .. Len(l) |-> FileChunk(l[i])]]) :
        l \in {<<>>, <<1>>, <<3>>, <<2, 1>>, <<1, 2, 4>>}}
    \cup {VSlice(Png_as_bytes([chunks |-> <<FileChunk(1)>>]), N(0), N(Len(PNG_SIGNATURE) + 6)),
          Explicit(<<71, 73, 70, 56, 57, 97, 1, 0, 1, 0>>)}

PngInit ==
    /\ type_in = <<>>
    /\ ct = None
    /\ props = None
    /\ ChunkIdle
    /\ \E contents \in InitialFiles : disk = [p \in {InPath} |-> contents]
    /\ prev = disk
    /\ cmd = [kind |-> "none"]
    /\ out = None
    /\ status = None
    /\ ncmd = 0

\* the command command ran on the file system disk, and done is what it gave
Ran(command, done) ==
    /\ cmd' = command
    /\ out' = done.out
    /\ status' = main(command, done.out)
    /\ disk' = done.fs
    /\ prev' = disk
    /\ ncmd' = ncmd + 1
    /\ UNCHANGED <<type_vars, chunk_vars>>

\* the command line `encode file_path chunk_type message [output_file]`
Encode ==
    /\ ncmd < MaxCmds
    /\ \E file_path \in {InPath}, chunk_type \in EncodeTypeStrings, message \in Messages,
          output_file \in OutputFiles :
        Ran([kind |-> "encode", file_path |-> file_path, chunk_type |-> chunk_type,
             message |-> message, output_file |-> output_file],
            encode(disk, file_path, chunk_type, message, output_file))

\* the command line `decode file_path chunk_type`
Decode ==
    /\ ncmd < MaxCmds
    /\ \E file_path \in FilePaths, chunk_type \in TypeStrings :
        Ran([kind |-> "decode", file_path |-> file_path, chunk_type |-> chunk_type],
            decode(disk, file_path, chunk_type))

\* the command line `remove file_path chunk_type`
Remove ==
    /\ ncmd < MaxCmds
    /\ \E file_path \in FilePaths, chunk_type \in TypeStrings :
        Ran([kind |-> "remove", file_path |-> file_path, chunk_type |-> chunk_type],
            remove(disk, file_path, chunk_type))

\* the command line `print file_path`
PrintChunks ==
    /\ ncmd < MaxCmds
    /\ \E file_path \in FilePaths :
        Ran([kind |-> "print", file_path |-> file_path], print(disk, file_path))

PngNext == Encode \/ Decode \/ Remove \/ PrintChunks

SpecPng == PngInit /\ [][PngNext]_vars


(***************************************************************************)
(* The claims about the container, settled under SpecPng.  Append, find    *)
(* and remove are what encode, decode and remove do to the container of a  *)
(* file; the container of a file is what PngFile::load makes of its bytes. *)
(***************************************************************************)
\* the chunks of the container of the file at path, in the file system fs
ChunksAt(fs, path) == PngFile_load(fs, path).val.png.chunks

\* the file at path holds a container, in the file system fs
HoldsPng(fs, path) == PngFile_load(fs, path).tag = "Ok"

\* the indices of the chunks of the sequence chunks whose type is type_string
OfType(chunks, type_string) ==
    {i \in 1 .. Len(chunks) : chunks[i].chunk_type.bytes = type_string}

\* the file a command of encode writes
OutputOf(command) ==
    IF command.output_file = None THEN default_output_path(command.file_path, "encoded")
    ELSE command.output_file.val

\* the Result is a not-found error
IsNotFound(result) ==
    \/ result.tag = "ChunkNotFound"
    \/ result.tag = "Png" /\ result.source.tag = "ChunkNotFound"

\* decode was run on the file, and for the type, of the command command
DecodesSame(decoding, path, type_string) ==
    /\ decoding.kind = "decode"
    /\ decoding.file_path = path
    /\ decoding.chunk_type = type_string

\* the text of the chunk c as decode returns it
TextOf(c) ==
    IF data_as_str(c).tag = "Ok" THEN data_as_str(c)
    ELSE [tag |-> "Chunk", source |-> data_as_str(c)]

\* the last command was a remove that succeeded, on a container whose last
\* chunk had the type removed: a container that an append of a chunk of that
\* type leaves
RemovedAfterAppend ==
    /\ cmd.kind = "remove"
    /\ out.tag = "Ok"
    /\ ChunksAt(prev, cmd.file_path) # <<>>
    /\ Len(ChunksAt(prev, cmd.file_path)) \in OfType(ChunksAt(prev, cmd.file_path), cmd.chunk_type)

\* C9, as the specification states it, step by step: find after the append of
\* c returns c; find after the remove that follows returns nothing; remove of
\* a type no chunk has returns a not-found error.
C9_Step ==
    /\ (cmd.kind = "encode" /\ out.tag = "Ok" /\ DecodesSame(cmd', OutputOf(cmd), cmd.chunk_type))
        => out' = [tag |-> "Ok", val |-> cmd.message]
    /\ (RemovedAfterAppend /\ DecodesSame(cmd', cmd.file_path, cmd.chunk_type))
        => IsNotFound(out')
    /\ (cmd'.kind = "remove" /\ HoldsPng(disk, cmd'.file_path)
            /\ OfType(ChunksAt(disk, cmd'.file_path), cmd'.chunk_type) = {})
        => IsNotFound(out')

\* C9, as the specification states it: append, then find, then remove, then
\* find, and remove of a type that is absent.
C9_AppendFindRemoveFind == [][C9_Step]_vars

\* C9, amended, step by step: find after the append of c returns the first
\* chunk of the type, which is c when the container held none of the type
\* before; find after the remove that follows returns nothing when the
\* container held one chunk of the type, and else the first that is left;
\* remove of a type no chunk has returns a not-found error and writes nothing.
C9_AmendedStep ==
    /\ (cmd.kind = "encode" /\ out.tag = "Ok" /\ DecodesSame(cmd', OutputOf(cmd), cmd.chunk_type))
        => LET before == ChunksAt(prev, cmd.file_path)
               earlier == OfType(before, cmd.chunk_type)
           IN  out' = IF earlier = {} THEN [tag |-> "Ok", val |-> cmd.message]
                      ELSE TextOf(before[FirstIndex(earlier)])
    /\ (RemovedAfterAppend /\ DecodesSame(cmd', cmd.file_path, cmd.chunk_type))
        => LET before == ChunksAt(prev, cmd.file_path)
               matching == OfType(before, cmd.chunk_type)
               left == matching \ {FirstIndex(matching)}
           IN  /\ IsNotFound(out') <=> Cardinality(matching) = 1
               /\ left # {} => out' = TextOf(before[FirstIndex(left)])
    /\ (cmd'.kind = "remove" /\ HoldsPng(disk, cmd'.file_path)
            /\ OfType(ChunksAt(disk, cmd'.file_path), cmd'.chunk_type) = {})
        => (IsNotFound(out') /\ disk' = disk)

\* C9, amended: find returns the first chunk of the type in stored order.
C9_FindReturnsFirstOfType == [][C9_AmendedStep]_vars

\* C9's case: after an encode of a type the file held already, decode of the
\* file encode wrote returned the text of the earlier chunk, not the message
C9_FoundEarlierChunk ==
    /\ cmd.kind = "decode"
    /\ out.tag = "Ok"
    /\ HoldsPng(disk, cmd.file_path)
    /\ Cardinality(OfType(ChunksAt(disk, cmd.file_path), cmd.chunk_type)) = 2
    /\ LET chunks == ChunksAt(disk, cmd.file_path)
       IN  /\ chunks[Len(chunks)].chunk_type.bytes = cmd.chunk_type
           /\ chunks[Len(chunks)].data.head \in Messages
           /\ out.val # chunks[Len(chunks)].data.head
           /\ out.val = chunks[FirstIndex(OfType(chunks, cmd.chunk_type))].data.head

\* C10: remove deletes the earliest chunk of the type and leaves every other
\* chunk, later chunks of the type too, in place and in order; encode puts
\* the new chunk last and leaves every chunk there was as it was.
C10_RemoveFirstAppendLast ==
    /\ (cmd.kind = "remove" /\ out.tag = "Ok") =>
        /\ HoldsPng(prev, cmd.file_path)
        /\ HoldsPng(disk, cmd.file_path)
        /\ LET before == ChunksAt(prev, cmd.file_path)
               after == ChunksAt(disk, cmd.file_path)
           IN  \E i \in 1 .. Len(before) :
                /\ before[i].chunk_type.bytes = cmd.chunk_type
                /\ \A j \in 1 .. (i - 1) : before[j].chunk_type.bytes # cmd.chunk_type
                /\ Len(after) = Len(before) - 1
                /\ \A j \in 1 .. (i - 1) : after[j] = before[j]
                /\ \A j \in (i + 1) .. Len(before) : after[j - 1] = before[j]
    /\ (cmd.kind = "encode" /\ out.tag = "Ok") =>
        /\ HoldsPng(prev, cmd.file_path)
        /\ HoldsPng(disk, OutputOf(cmd))
        /\ LET before == ChunksAt(prev, cmd.file_path)
               after == ChunksAt(disk, OutputOf(cmd))
           IN  /\ Len(after) = Len(before) + 1
               /\ \A j \in 1 .. Len(before) : after[j] = before[j]
               /\ after[Len(after)].chunk_type.bytes = cmd.chunk_type
               /\ after[Len(after)].data = Explicit(cmd.message)
               /\ after[Len(after)].crc = Crc32OfTypeThenData(after[Len(after)])

\* C10's case: remove took the first of the two chunks of its type out of a
\* container of three chunks, and the two that are left are the second and
\* the third, the third of the type removed
C10_RemovedFirstOfTwo ==
    /\ cmd.kind = "remove"
    /\ out.tag = "Ok"
    /\ Len(ChunksAt(prev, cmd.file_path)) = 3
    /\ Cardinality(OfType(ChunksAt(prev, cmd.file_path), cmd.chunk_type)) = 2
    /\ ChunksAt(disk, cmd.file_path) = Tail(ChunksAt(prev, cmd.file_path))
    /\ ChunksAt(disk, cmd.file_path)[2].chunk_type.bytes = cmd.chunk_type

(***************************************************************************)
(* The claims about the command line, settled under SpecPng.               *)
(***************************************************************************)
\* C11, as the specification states it: the process exits with status 0 only
\* when the command succeeded, and with a status that is not 0 whenever the
\* command returned an error, the not-found error of decode and of remove
\* too.
C11_ExitZeroOnlyOnSuccess ==
    cmd.kind # "none" =>
        /\ status \in Nat
        /\ status = 0 <=> out.tag = "Ok"

\* C11, amended: the process exits with status 0 when the command succeeded,
\* and also when decode found no chunk of the type; it exits with status 1
\* on every other error, the not-found error of remove too.
C11_ExitZeroOnSuccessOrDecodeNotFound ==
    cmd.kind # "none" =>
        /\ status \in {0, 1}
        /\ status = 0 <=> (out.tag = "Ok" \/ (cmd.kind = "decode" /\ out.tag = "ChunkNotFound"))
        /\ (cmd.kind = "remove" /\ IsNotFound(out)) => status = 1

\* C11's case: decode ran on a file that holds a container with no chunk of
\* the type, returned the not-found error, and the process exited with 0
C11_DecodeNotFoundExitsZero ==
    /\ cmd.kind = "decode"
    /\ HoldsPng(disk, cmd.file_path)
    /\ OfType(ChunksAt(disk, cmd.file_path), cmd.chunk_type) = {}
    /\ out.tag = "ChunkNotFound"
    /\ status = 0

\* the string, a sequence of bytes, is four ASCII letters
FourLetters(type_string) ==
    /\ Len(type_string) = 4
    /\ \A i \in 1 .. 4 : type_string[i] \in AsciiLetters

\* C12: encode on a file that loads, with a chunk type that is not four ASCII
\* letters, returns a chunk-type error and leaves the file system as it was:
\* no file is created and none is changed.
C12_BadTypeRejectedBeforeAnyWrite ==
    (cmd.kind = "encode" /\ HoldsPng(prev, cmd.file_path) /\ ~FourLetters(cmd.chunk_type)) =>
        /\ out.tag = "ChunkType"
        /\ out.source.tag \in {"InvalidLength", "InvalidByte"}
        /\ out.source.tag = "InvalidLength" <=> Len(cmd.chunk_type) # 4
        /\ disk = prev
        /\ status = 1

\* C12's case: encode with a chunk type of four bytes, one of them a digit,
\* and no output file, on a file that loads: the error is returned and the
\* default output file does not exist
C12_DigitInTypeNothingWritten ==
    /\ cmd.kind = "encode"
    /\ HoldsPng(prev, cmd.file_path)
    /\ Len(cmd.chunk_type) = 4
    /\ ~FourLetters(cmd.chunk_type)
    /\ cmd.output_file = None
    /\ out.tag = "ChunkType"
    /\ OutputOf(cmd) \notin DOMAIN disk

\* the file next to path whose name is the stem of path, "_", suffix, and the
\* extension of path
Suffixed(path, suffix) ==
    [parent |-> path.parent, stem |-> Append(path.stem, suffix), ext |-> path.ext]

\* C13: encode without an output file writes the container to the file next
\* to the input named by the input's stem, the suffix "_encode" and the
\* input's extension, and leaves the input file as it was.
C13_DefaultOutputHasSuffixEncode ==
    (cmd.kind = "encode" /\ cmd.output_file = None /\ out.tag = "Ok") =>
        /\ DOMAIN disk = DOMAIN prev \cup {Suffixed(cmd.file_path, "encode")}
        /\ HoldsPng(disk, Suffixed(cmd.file_path, "encode"))
        /\ disk[cmd.file_path] = prev[cmd.file_path]

\* C13's case: encode without an output file succeeded on in.png; in.png is
\* as it was, the container is in in_encoded.png, and there is no
\* in_encode.png
C13_WrittenToSuffixEncoded ==
    /\ cmd.kind = "encode"
    /\ cmd.output_file = None
    /\ out.tag = "Ok"
    /\ disk[cmd.file_path] = prev[cmd.file_path]
    /\ Suffixed(cmd.file_path, "encode") \notin DOMAIN disk
    /\ Suffixed(cmd.file_path, "encoded") \in DOMAIN disk
    /\ Len(ChunksAt(disk, Suffixed(cmd.file_path, "encoded")))
         = Len(ChunksAt(prev, cmd.file_path)) + 1

\* C14: remove of a type no chunk of the file has returns an error and leaves
\* the file system, byte for byte, as it was; whenever remove returns an
\* error nothing is written; and the file system differs after remove only
\* when a chunk was removed, and then only in the file remove was run on,
\* which holds the container without that chunk.
C14_RemoveWritesOnlyAfterRemoval ==
    cmd.kind = "remove" =>
        /\ (HoldsPng(prev, cmd.file_path)
                /\ OfType(ChunksAt(prev, cmd.file_path), cmd.chunk_type) = {})
            => (out.tag # "Ok" /\ IsNotFound(out) /\ disk = prev)
        /\ out.tag # "Ok" => disk = prev
        /\ out.tag = "Ok" =>
            /\ OfType(ChunksAt(prev, cmd.file_path), cmd.chunk_type) # {}
            /\ DOMAIN disk = DOMAIN prev
            /\ \A p \in DOMAIN disk \ {cmd.file_path} : disk[p] = prev[p]
            /\ disk[cmd.file_path] # prev[cmd.file_path]
            /\ VLen(disk[cmd.file_path]) = NSub(VLen(prev[cmd.file_path]),
                    VLen(as_bytes(ChunksAt(prev, cmd.file_path)[
                        FirstIndex(OfType(ChunksAt(prev, cmd.file_path), cmd.chunk_type))])))

\* C14's case: remove ran on a file that holds a container with chunks, none
\* of the type; it returned the not-found error and the file is as it was
C14_AbsentTypeFileUntouched ==
    /\ cmd.kind = "remove"
    /\ HoldsPng(prev, cmd.file_path)
    /\ ChunksAt(prev, cmd.file_path) # <<>>
    /\ OfType(ChunksAt(prev, cmd.file_path), cmd.chunk_type) = {}
    /\ IsNotFound(out)
    /\ disk[cmd.file_path] = prev[cmd.file_path]

(***************************************************************************)
(* The claims about the totality and the reach of Chunk::try_from, settled *)
(* under SpecChunk.                                                        *)
(***************************************************************************)
\* C15: Chunk::try_from returns a chunk or a ChunkError on every input and
\* never panics: the position of every NotEnoughBytes is at most the length
\* of the input, its actual is the length less the position and is less than
\* its required, and the greatest index computed, 12 + the declared length,
\* is less than 2^32 whenever the length was not refused as TooLarge.
C15_TryFromIsTotal ==
    res # None =>
        /\ res.tag \in {"Ok", "NotEnoughBytes", "TooLarge", "InvalidChunkType", "CrcMismatch"}
        /\ res.tag = "NotEnoughBytes" =>
            /\ NLe(res.position, VLen(wire))
            /\ res.actual = NSub(VLen(wire), res.position)
            /\ NLt(res.actual, res.required)
        /\ (NLe(N(LENGTH_SIZE), VLen(wire)) /\ res.tag # "TooLarge") =>
            NLt(NAdd(N(LENGTH_SIZE + TYPE_SIZE + CRC_SIZE), WireLengthField), <<B16, 0>>)

\* C15's case: an input of 8 to 11 bytes whose length field is 2^31 - 1 and
\* whose type is four letters: NotEnoughBytes at the data field, with the
\* bytes after the header as actual
C15_ShortInputLargestLength ==
    /\ org.kind = "raw_prefix"
    /\ res # None
    /\ NLe(N(LENGTH_SIZE + TYPE_SIZE), VLen(wire))
    /\ NLt(N(LENGTH_SIZE + TYPE_SIZE), VLen(wire))
    /\ WireLengthField = MAX_DATA_SIZE
    /\ res.tag = "NotEnoughBytes"
    /\ res.position = N(LENGTH_SIZE + TYPE_SIZE)
    /\ res.required = MAX_DATA_SIZE
    /\ res.actual = NSub(VLen(wire), N(LENGTH_SIZE + TYPE_SIZE))

\* C16: Chunk::try_from reads the first 12 + length bytes of its input and no
\* more: on a serialised chunk followed by more bytes it returns what it
\* returns on the serialised chunk alone, which is the chunk itself when its
\* data is within the limit; and the serialisation of every chunk parsed has
\* 12 + data.len() bytes and is the start of the input.
C16_TryFromReadsOneChunk ==
    /\ (org.kind = "extended" /\ res # None) =>
        /\ res = Chunk_try_from(as_bytes(chunk))
        /\ NLe(VLen(chunk.data), MAX_DATA_SIZE) => res = [tag |-> "Ok", val |-> chunk]
        /\ res.tag = "Ok" =>
            VSlice(wire, VLen(as_bytes(res.val)), VLen(wire)) = Explicit(org.by)
    /\ (res # None /\ res.tag = "Ok") =>
        /\ VLen(as_bytes(res.val))
             = NAdd(N(LENGTH_SIZE + TYPE_SIZE + CRC_SIZE), VLen(res.val.data))
        /\ VSlice(wire, N(0), VLen(as_bytes(res.val))) = as_bytes(res.val)

\* C16's case: the serialised chunk of the largest payload, followed by five
\* bytes, parsed to that chunk
C16_LargestChunkThenFiveBytes ==
    /\ org.kind = "extended"
    /\ Len(org.by) = 5
    /\ VLen(chunk.data) = MAX_DATA_SIZE
    /\ res = [tag |-> "Ok", val |-> chunk]
    /\ VLen(wire) = NAdd(N(LENGTH_SIZE + TYPE_SIZE + CRC_SIZE + 5), MAX_DATA_SIZE)

=============================================================================
